---- MODULE Spec2Model ----
(***************************************************************************)
(* Model of equinox.py: schema inference (Schema.register,                 *)
(* Schema.infer_type, Schema.register_variable, infer_schema) and typed    *)
(* value materialisation (Schema.infer_value, epistemic_instance,          *)
(* extend_polity, load_data), with the value parsers they call.            *)
(*                                                                         *)
(* Python strings are modelled as sequences of one-character strings, so   *)
(* that prefix tests, regular expressions, case conversion and int() are   *)
(* computed on the characters as the code computes them.                   *)
(***************************************************************************)
EXTENDS Integers, Sequences, FiniteSets, TLC

\* ------------------------------------------------------------------------
\* Characters and Python string methods
\* ------------------------------------------------------------------------

LowerLetters == <<"a","b","c","d","e","f","g","h","i","j","k","l","m",
                  "n","o","p","q","r","s","t","u","v","w","x","y","z">>

UpperLetters == <<"A","B","C","D","E","F","G","H","I","J","K","L","M",
                  "N","O","P","Q","R","S","T","U","V","W","X","Y","Z">>

DigitChars == <<"0","1","2","3","4","5","6","7","8","9">>

Range(f) == { f[x] : x \in DOMAIN f }

LowerSet == Range(LowerLetters)

UpperSet == Range(UpperLetters)

DigitSet == Range(DigitChars)

SpaceSet == {" "}

IndexIn(c, seq) == CHOOSE k \in DOMAIN seq : seq[k] = c

CharLower(c) == IF c \in UpperSet THEN LowerLetters[IndexIn(c, UpperLetters)] ELSE c

CharUpper(c) == IF c \in LowerSet THEN UpperLetters[IndexIn(c, LowerLetters)] ELSE c

IsCased(c) == c \in LowerSet \/ c \in UpperSet

\* str.lower()
Lower(s) == [k \in DOMAIN s |-> CharLower(s[k])]

\* str.upper()
Upper(s) == [k \in DOMAIN s |-> CharUpper(s[k])]

\* str.title(): a cased character is upper-cased when it follows an uncased
\* character (or starts the string) and lower-cased otherwise
Title(s) == [k \in DOMAIN s |->
               IF k = 1 \/ ~IsCased(s[k - 1]) THEN CharUpper(s[k]) ELSE CharLower(s[k])]

\* str.replace(old, new) for a one-character old and a string new
RECURSIVE Replace(_, _, _)
Replace(s, old, new) ==
    IF s = <<>> THEN <<>>
    ELSE (IF Head(s) = old THEN new ELSE <<Head(s)>>) \o Replace(Tail(s), old, new)

\* urllib.parse.quote: letters, digits and "_.-~/" are kept, every other
\* character is percent-encoded
QuoteSafe == LowerSet \cup UpperSet \cup DigitSet \cup {"_", ".", "-", "~", "/"}

QuoteChar(c) ==
    IF c \in QuoteSafe THEN <<c>>
    ELSE IF c = " " THEN <<"%","2","0">>
    ELSE IF c = "(" THEN <<"%","2","8">>
    ELSE IF c = ")" THEN <<"%","2","9">>
    ELSE IF c = "," THEN <<"%","2","C">>
    ELSE <<"%", c>>

RECURSIVE Quote(_)
Quote(s) == IF s = <<>> THEN <<>> ELSE QuoteChar(Head(s)) \o Quote(Tail(s))

prop_name(name) == Quote(Replace(Lower(name), " ", <<"_">>))

class_name(name) == Quote(Replace(Title(name), " ", <<>>))

\* ------------------------------------------------------------------------
\* Regular expressions (re.match): a pattern is a sequence of atoms, an atom
\* a character set with a quantifier "1", "?", "*" or "+"
\* ------------------------------------------------------------------------

Atom(cs, q) == [cs |-> cs, q |-> q]

Lit(c) == Atom({c}, "1")

Opt(c) == Atom({c}, "?")

DigitsPlus == Atom(DigitSet, "+")

SpacesStar == Atom(SpaceSet, "*")

\* the positions at which atom a can end when it starts at a position of P
AtomEnds(a, s, P) ==
    LET n == Len(s)
        one == { p + 1 : p \in { p \in P : p <= n /\ s[p] \in a.cs } }
        run == { q \in 1..(n + 1) :
                   \E p \in P : p <= q /\ \A k \in p..(q - 1) : s[k] \in a.cs }
    IN  CASE a.q = "1" -> one
          [] a.q = "?" -> P \cup one
          [] a.q = "*" -> run
          [] a.q = "+" -> { q \in run : \E p \in P : p < q /\ \A k \in p..(q - 1) : s[k] \in a.cs }

RECURSIVE PatEnds(_, _, _)
PatEnds(pat, s, P) ==
    IF pat = <<>> THEN P ELSE PatEnds(Tail(pat), s, AtomEnds(Head(pat), s, P))

\* re.match(pat, s) for a pattern without "$": a match of a prefix of s
MatchPrefix(pat, s) == PatEnds(pat, s, {1}) # {}

\* re.match(pat, s) for a pattern ending in "$": a match of the whole of s
MatchFull(pat, s) == (Len(s) + 1) \in PatEnds(pat, s, {1})

\* re.match(w, s) for a literal w: w is a prefix of s
StartsWith(s, w) == Len(w) <= Len(s) /\ \A k \in 1..Len(w) : s[k] = w[k]

\* re.match('.*' + w, s) and re.match('^.*' + w + '.*$', s) for a literal w
Contains(s, w) ==
    \E p \in 1..(Len(s) - Len(w) + 1) : \A k \in 1..Len(w) : s[p + k - 1] = w[k]

\* the longest run of digits of s that starts at position p: a group (\d+)
RECURSIVE DigitRun(_, _)
DigitRun(s, p) ==
    IF p <= Len(s) /\ s[p] \in DigitSet THEN <<s[p]>> \o DigitRun(s, p + 1) ELSE <<>>

\* the first position at or after p that holds a digit (Len(s) + 1 if none)
RECURSIVE NextDigit(_, _)
NextDigit(s, p) ==
    IF p > Len(s) \/ s[p] \in DigitSet THEN p ELSE NextDigit(s, p + 1)

\* int() of a string of digits
RECURSIVE DigitsValue(_)
DigitsValue(d) ==
    IF d = <<>> THEN 0
    ELSE 10 * DigitsValue(SubSeq(d, 1, Len(d) - 1)) + (IndexIn(d[Len(d)], DigitChars) - 1)

RECURSIVE Strip(_)
Strip(s) ==
    IF s = <<>> THEN s
    ELSE IF Head(s) \in SpaceSet THEN Strip(Tail(s))
    ELSE IF s[Len(s)] \in SpaceSet THEN Strip(SubSeq(s, 1, Len(s) - 1))
    ELSE s

\* int(s) succeeds on digits with surrounding whitespace and raises
\* ValueError otherwise
IntOk(s) == Strip(s) # <<>> /\ \A k \in DOMAIN Strip(s) : Strip(s)[k] \in DigitSet

IntValue(s) == DigitsValue(Strip(s))

\* ------------------------------------------------------------------------
\* String literals of the source
\* ------------------------------------------------------------------------

S_empty == <<>>

S_BCE == <<"B","C","E">>

S_CE == <<"C","E">>

S_suspected_unknown == <<"s","u","s","p","e","c","t","e","d"," ","u","n","k","n","o","w","n">>

S_unknown == <<"u","n","k","n","o","w","n">>

S_uncoded == <<"u","n","c","o","d","e","d">>

S_known == <<"k","n","o","w","n">>

S_inferred == <<"i","n","f","e","r","r","e","d">>

S_disputed == <<"d","i","s","p","u","t","e","d">>

S_present == <<"p","r","e","s","e","n","t">>

S_absent == <<"a","b","s","e","n","t">>

S_vassalage == <<"v","a","s","s","a","l","a","g","e">>

S_none == <<"n","o","n","e">>

S_alliance == <<"a","l","l","i","a","n","c","e">>

S_nominal == <<"n","o","m","i","n","a","l">>

S_loose == <<"l","o","o","s","e">>

S_unitary_state == <<"u","n","i","t","a","r","y"," ","s","t","a","t","e">>

S_confederated_state == <<"c","o","n","f","e","d","e","r","a","t","e","d"," ","s","t","a","t","e">>

S_quasi_polity == <<"q","u","a","s","i","-","p","o","l","i","t","y">>

S_polity == <<"p","o","l","i","t","y">>

S_Capital == <<"C","a","p","i","t","a","l">>

S_Supra_polity_relations == <<"S","u","p","r","a","-","p","o","l","i","t","y"," ","r","e","l","a","t","i","o","n","s">>

S_Degree_of_centralization == <<"D","e","g","r","e","e"," ","o","f"," ","c","e","n","t","r","a","l","i","z","a","t","i","o","n">>

S_Code_book == <<"C","o","d","e"," ","b","o","o","k">>

S_Polity_slash == <<"P","o","l","i","t","y","/">>

Polity_List == { <<"p","r","e","c","e","d","i","n","g"," ","(","q","u","a","s","i",")","p","o","l","i","t","y">>,
                 <<"s","u","c","c","e","e","d","i","n","g"," ","(","q","u","a","s","i",")","p","o","l","i","t","y">> }

\* ------------------------------------------------------------------------
\* Python values.  Every value has the same record shape so that any two
\* can be compared: t is the Python type (or the '@type' of a dict), s its
\* text, a and b its numbers, what the message of a raised exception.
\* ------------------------------------------------------------------------

None == [t |-> "None", s |-> <<>>, a |-> 0, b |-> 0, what |-> ""]

VStr(s) == [t |-> "str", s |-> s, a |-> 0, b |-> 0, what |-> ""]

VInt(n) == [t |-> "int", s |-> <<>>, a |-> n, b |-> 0, what |-> ""]

\* the list [start, end] of integer_from_to
VList(start, end) == [t |-> "list", s |-> <<>>, a |-> start, b |-> end, what |-> ""]

\* the tuple (start, end) of date_from_to
VTuple(start, end) == [t |-> "tuple", s |-> <<>>, a |-> start, b |-> end, what |-> ""]

\* { '@type' : 'DateRange', 'from' : from_time, 'to' : to_time }
VDateRange(from_time, to_time) == [t |-> "DateRange", s |-> <<>>, a |-> from_time, b |-> to_time, what |-> ""]

\* { '@type' : 'City', 'name' : value_from }
VCity(name) == [t |-> "City", s |-> name, a |-> 0, b |-> 0, what |-> ""]

\* a raised exception, in place of a returned value
Raise(what) == [t |-> "raise", s |-> <<>>, a |-> 0, b |-> 0, what |-> what]

Raised(v) == v.t = "raise"

\* Python truth of an optional integer result: None and 0 are false
Truthy(v) == v.t # "None" /\ ~(v.t = "int" /\ v.a = 0)

\* ------------------------------------------------------------------------
\* Value parsers
\* ------------------------------------------------------------------------

\* '^(\d+)\s*BCE$'
bce_date == <<DigitsPlus, SpacesStar, Lit("B"), Lit("C"), Lit("E")>>

\* '^(\d+)\s*CE$'
ce_date_gyear == <<DigitsPlus, SpacesStar, Lit("C"), Lit("E")>>

\* '^(\d+)\s*C?E?$'
ce_date == <<DigitsPlus, SpacesStar, Opt("C"), Opt("E")>>

\* '^(\d+)\s*-\s*(\d+)\s*BCE$'
bce_date_range_1 == <<DigitsPlus, SpacesStar, Lit("-"), SpacesStar, DigitsPlus, SpacesStar,
                      Lit("B"), Lit("C"), Lit("E")>>

\* '^(\d+)\s*BCE\s*-\s*(\d+)\s*BCE$'
bce_date_range_2 == <<DigitsPlus, SpacesStar, Lit("B"), Lit("C"), Lit("E"), SpacesStar,
                      Lit("-"), SpacesStar, DigitsPlus, SpacesStar,
                      Lit("B"), Lit("C"), Lit("E")>>

\* '^(\d+)\s*-\s*(\d+)\s*C?E?$'
ce_date_range_1 == <<DigitsPlus, SpacesStar, Lit("-"), SpacesStar, DigitsPlus, SpacesStar,
                     Opt("C"), Opt("E")>>

\* '^(\d+)\s*CE\s*-\s*(\d+)\s*CE$$'
ce_date_range_2 == <<DigitsPlus, SpacesStar, Lit("C"), Lit("E"), SpacesStar,
                     Lit("-"), SpacesStar, DigitsPlus, SpacesStar, Lit("C"), Lit("E")>>

\* '^(\d+)\s*BCE\s*-\s*(\d+)\s*CE$'
bce_ce_date_range == <<DigitsPlus, SpacesStar, Lit("B"), Lit("C"), Lit("E"), SpacesStar,
                       Lit("-"), SpacesStar, DigitsPlus, SpacesStar, Lit("C"), Lit("E")>>

\* "(\d+)-(\d+)"
range_pat == <<DigitsPlus, Lit("-"), DigitsPlus>>

\* the first group (\d+) of a pattern that starts with it
Group1(s) == DigitRun(s, 1)

\* the second group (\d+): the next run of digits after the first
Group2(s) == DigitRun(s, NextDigit(s, Len(Group1(s)) + 1))

date_range_object(date_string_in) ==
    LET date_string == Upper(date_string_in)
        m1 == DigitsValue(Group1(date_string))
        m2 == DigitsValue(Group2(date_string))
    IN  IF MatchFull(bce_date, date_string) THEN VDateRange(-m1, -m1)
        ELSE IF MatchFull(ce_date, date_string) THEN VDateRange(m1, m1)
        ELSE IF MatchFull(bce_date_range_1, date_string)
                \/ MatchFull(bce_date_range_2, date_string) THEN VDateRange(-m1, -m2)
        ELSE IF MatchFull(ce_date_range_1, date_string)
                \/ MatchFull(ce_date_range_2, date_string) THEN VDateRange(m1, m2)
        ELSE IF MatchFull(bce_ce_date_range, date_string) THEN VDateRange(m1, m2)
        ELSE Raise("Unable to parse date")

integer_from_to(value_from, value_to) ==
    IF MatchPrefix(range_pat, value_from)
    THEN VList(DigitsValue(Group1(value_from)), DigitsValue(Group2(value_from)))
    ELSE IF MatchPrefix(<<DigitsPlus>>, value_from)
    THEN IF ~IntOk(value_from) THEN Raise("ValueError")
         ELSE IF MatchPrefix(<<DigitsPlus>>, value_to)
         THEN IF ~IntOk(value_to) THEN Raise("ValueError")
              ELSE VList(IntValue(value_from), IntValue(value_to))
         ELSE VList(IntValue(value_from), IntValue(value_from))
    ELSE IF MatchPrefix(<<DigitsPlus>>, value_to)
    THEN IF ~IntOk(value_to) THEN Raise("ValueError")
         ELSE VList(IntValue(value_to), IntValue(value_to))
    ELSE None

date_gyear(date_string) ==
    IF date_string = S_empty THEN None
    ELSE IF MatchFull(bce_date, date_string) THEN VInt(-DigitsValue(Group1(date_string)))
    ELSE IF MatchFull(ce_date_gyear, date_string) THEN VInt(DigitsValue(Group1(date_string)))
    ELSE Raise("Could not parse date")

date_from_to(value_from, value_to) ==
    LET start == date_gyear(value_from)
        end == date_gyear(value_to)
    IN  IF Raised(start) THEN start
        ELSE IF Raised(end) THEN end
        ELSE IF ~Truthy(start) /\ ~Truthy(end) THEN None
        ELSE IF ~Truthy(start) THEN VTuple(end.a, end.a)
        ELSE IF ~Truthy(end) THEN VTuple(start.a, start.a)
        ELSE VTuple(start.a, end.a)

\* faulty variant: a text without a marker has no epistemic state
epistemic_no_default(value) ==
    IF StartsWith(value, S_suspected_unknown) THEN VStr(S_suspected_unknown)
    ELSE IF StartsWith(value, S_unknown) \/ StartsWith(value, S_uncoded) THEN VStr(S_unknown)
    ELSE IF StartsWith(value, S_known) THEN VStr(S_known)
    ELSE IF StartsWith(value, S_inferred) THEN VStr(S_inferred)
    ELSE IF StartsWith(value, S_disputed) THEN VStr(S_disputed)
    ELSE None

epistemic(value) ==
    IF StartsWith(value, S_suspected_unknown) THEN VStr(S_suspected_unknown)
    ELSE IF StartsWith(value, S_unknown) \/ StartsWith(value, S_uncoded) THEN VStr(S_unknown)
    ELSE IF StartsWith(value, S_known) THEN VStr(S_known)
    ELSE IF StartsWith(value, S_inferred) THEN VStr(S_inferred)
    ELSE IF StartsWith(value, S_disputed) THEN VStr(S_disputed)
    ELSE IF value = S_empty THEN None
    ELSE VStr(S_known)

centralization(value_in) ==
    LET value == Lower(value_in)
    IN  IF value = S_empty THEN None ELSE VStr(value)

presence(value_in) ==
    LET value == Lower(value_in)
    IN  IF Contains(value, S_present) THEN VStr(S_present)
        ELSE IF Contains(value, S_absent) THEN VStr(S_absent)
        ELSE None

supra_polity_relations(value_in) ==
    LET value == Lower(value_in)
    IN  IF Contains(value, S_vassalage) THEN VStr(S_vassalage)
        ELSE IF Contains(value, S_none) THEN VStr(S_none)
        ELSE IF Contains(value, S_alliance) THEN VStr(S_alliance)
        ELSE IF Contains(value, S_nominal) THEN VStr(S_nominal)
        ELSE IF value = S_empty THEN None
        ELSE VStr(value)

\* ------------------------------------------------------------------------
\* Schema: the registry of sections, subsections and variables
\* ------------------------------------------------------------------------

Value_Epistemic_Map ==
    [ IntegerValue |-> "IntegerEpistemic",
      PresenceValue |-> "PresenceEpistemic",
      StringValue |-> "StringEpistemic",
      DateRangeValue |-> "DateRangeEpistemic",
      IntegerRangeValue |-> "IntegerRangeEpistemic",
      SupraPolityRelationsValue |-> "SupraPolityRelationsEpistemic",
      CapitalValue |-> "CapitalEpistemic",
      CentralizationValue |-> "CentralizationEpistemic" ]

\* Epistemic_Value_Map[e]: the key of Value_Epistemic_Map whose value is e;
\* a missing key is a KeyError
Epistemic_Value_Has(e) == \E k \in DOMAIN Value_Epistemic_Map : Value_Epistemic_Map[k] = e

Epistemic_Value_Map(e) == CHOOSE k \in DOMAIN Value_Epistemic_Map : Value_Epistemic_Map[k] = e

\* the class definition of a variable: its '@id' and the '@inherits' that
\* carries its value kind
epistemic_family(variable, section, value_range) ==
    [id |-> class_name(variable), inherits |-> Value_Epistemic_Map[value_range]]

\* a schema node { '@type' : 'Class', '@id' : id, ... } and its fields,
\* keyed by property name.  A property name is percent-encoded, so it never
\* equals one of the '@' keys of the node.
NewNode(id) == [id |-> id, fields |-> <<>>]

OptionalField(class) == [type |-> "Optional", class |-> class]

SetField(class) == [type |-> "Set", class |-> class]

\* f with key k set to v (a dict assignment)
Put(f, k, v) == (k :> v) @@ f

\* faulty variant: the call that creates the subsection returns the section
register_new_returns_section(sections_, subsections_, section, subsection) ==
    LET sections1 == IF section \notin DOMAIN sections_
                     THEN Put(sections_, section, NewNode(class_name(section)))
                     ELSE sections_
    IN  IF subsection # S_empty /\ subsection \notin DOMAIN subsections_
        THEN [ sections |-> [sections1 EXCEPT ![section].fields =
                                Put(@, prop_name(subsection), OptionalField(class_name(subsection)))],
               subsections |-> Put(subsections_, subsection, NewNode(class_name(subsection))),
               ret |-> VStr(section) ]
        ELSE [ sections |-> sections1,
               subsections |-> subsections_,
               ret |-> IF subsection # S_empty THEN VStr(subsection) ELSE VStr(section) ]

register(sections_, subsections_, section, subsection) ==
    LET section_class == class_name(section)
        subsection_class == class_name(subsection)
        subsection_prop == prop_name(subsection)
        sections1 == IF section \notin DOMAIN sections_
                     THEN Put(sections_, section, NewNode(section_class))
                     ELSE sections_
    IN  IF subsection # S_empty /\ subsection \notin DOMAIN subsections_
        THEN [ sections |-> [sections1 EXCEPT ![section].fields =
                                Put(@, subsection_prop, OptionalField(subsection_class))],
               subsections |-> Put(subsections_, subsection, NewNode(subsection_class)),
               ret |-> VStr(subsection) ]
        ELSE [ sections |-> sections1,
               subsections |-> subsections_,
               ret |-> IF subsection # S_empty THEN VStr(subsection)
                       ELSE IF section \in DOMAIN sections1 THEN VStr(section)
                       ELSE Raise("Unable to find section or subsection") ]

\* '^\s*\d+\s*$'
integer_pat == <<SpacesStar, DigitsPlus, SpacesStar>>

\* '^\d+\s*B?C?E?\s*$'
date_range_pat_1 == <<DigitsPlus, SpacesStar, Opt("B"), Opt("C"), Opt("E"), SpacesStar>>

\* '^\d+\s*B?C?E?\s*-\s*\d+\s*B?C?E?\s*$'
date_range_pat_2 == <<DigitsPlus, SpacesStar, Opt("B"), Opt("C"), Opt("E"), SpacesStar,
                      Lit("-"), SpacesStar,
                      DigitsPlus, SpacesStar, Opt("B"), Opt("C"), Opt("E"), SpacesStar>>

\* '^.*present.*$|^.*absent.*$'
presence_pat(value) == Contains(value, S_present) \/ Contains(value, S_absent)

\* '^.*none.*$|^.*loose.*$|^.*nominal.*$|^.*unitary state.*$|
\*  ^.*confederated state.*$|^.*quasi-polity.*$|^.*polity.*$'
centralization_pat(value) ==
    \E w \in {S_none, S_loose, S_nominal, S_unitary_state, S_confederated_state,
              S_quasi_polity, S_polity} : Contains(value, w)

\* faulty variant: the year pattern is tried before the centralization rule
classify_date_before_centralization(variable, value_from, section) ==
    IF variable = S_Capital
    THEN epistemic_family(variable, section, "CapitalValue")
    ELSE IF variable = S_Supra_polity_relations
    THEN epistemic_family(variable, section, "SupraPolityRelationsValue")
    ELSE IF MatchFull(integer_pat, value_from)
    THEN epistemic_family(variable, section, "IntegerValue")
    ELSE IF presence_pat(value_from)
    THEN epistemic_family(variable, section, "PresenceValue")
    ELSE IF MatchFull(date_range_pat_1, value_from) \/ MatchFull(date_range_pat_2, value_from)
    THEN epistemic_family(variable, section, "DateRangeValue")
    ELSE IF variable = S_Degree_of_centralization \/ centralization_pat(value_from)
    THEN epistemic_family(variable, section, "CentralizationValue")
    ELSE epistemic_family(variable, section, "StringValue")

\* the rules of infer_type for a name that is not classified yet
classify(variable, value_from, section) ==
    IF variable = S_Capital
    THEN epistemic_family(variable, section, "CapitalValue")
    ELSE IF variable = S_Supra_polity_relations
    THEN epistemic_family(variable, section, "SupraPolityRelationsValue")
    ELSE IF MatchFull(integer_pat, value_from)
    THEN epistemic_family(variable, section, "IntegerValue")
    ELSE IF presence_pat(value_from)
    THEN epistemic_family(variable, section, "PresenceValue")
    ELSE IF variable = S_Degree_of_centralization \/ centralization_pat(value_from)
    THEN epistemic_family(variable, section, "CentralizationValue")
    ELSE IF MatchFull(date_range_pat_1, value_from) \/ MatchFull(date_range_pat_2, value_from)
    THEN epistemic_family(variable, section, "DateRangeValue")
    ELSE epistemic_family(variable, section, "StringValue")

\* faulty variant: a name that is classified already is classified again
infer_type_last_wins(variables_, variable, value_from, value_to, value_note, section) ==
    classify(variable, value_from, section)

infer_type(variables_, variable, value_from, value_to, value_note, section) ==
    IF variable \in DOMAIN variables_ THEN variables_[variable]
    ELSE classify(variable, value_from, section)

\* the variable is attached as a set-valued field to the section named
\* section_class if there is one, else to the subsection of that name
register_variable(sections_, subsections_, variables_, row, section_class) ==
    LET ty == infer_type(variables_, row.variable, row.value_from, row.value_to,
                         row.value_note, section_class)
        variable_class == class_name(row.variable)
        variable_prop == prop_name(row.variable)
    IN  IF section_class \in DOMAIN sections_
        THEN [ sections |-> [sections_ EXCEPT ![section_class].fields =
                                Put(@, variable_prop, SetField(variable_class))],
               subsections |-> subsections_,
               variables |-> Put(variables_, row.variable, ty),
               raised |-> FALSE ]
        ELSE IF section_class \in DOMAIN subsections_
        THEN [ sections |-> sections_,
               subsections |-> [subsections_ EXCEPT ![section_class].fields =
                                   Put(@, variable_prop, SetField(variable_class))],
               variables |-> Put(variables_, row.variable, ty),
               raised |-> FALSE ]
        ELSE [ sections |-> sections_, subsections |-> subsections_,
               variables |-> variables_, raised |-> TRUE ]

\* ------------------------------------------------------------------------
\* Typed value envelopes
\* ------------------------------------------------------------------------

\* var_obj = { '@type' : variable_class } and the epistemic branches set on
\* it: branches maps a branch key to its payload
NewVarObj(variable_class) == [type |-> VStr(variable_class), branches |-> <<>>]

\* the var_obj = { '@type' : None } that load_data starts with
NoVarObj == [type |-> None, branches |-> <<>>]

\* value_obj = { '@type' : value_type, 'value' : value } with the key
\* 'date_range' when date_range is not None
ValueObj(value_type, value, date_range) ==
    [ kind |-> "dict", type |-> value_type, value |-> value,
      date_range |-> IF date_range.t = "None" THEN None
                     ELSE VDateRange(date_range.a, date_range.b) ]

\* the empty list [] of the unknown and suspected_unknown branches
EmptyList == [kind |-> "list", type |-> "", value |-> None, date_range |-> None]

\* the result of a function that mutates var_obj: the dict after the call
\* and what the call returns ("var_obj", "None", or "raise" with err set)
Result(var_obj_, ret, err_) == [var_obj |-> var_obj_, ret |-> ret, err |-> err_]

SetBranch(var_obj_, key, payload) ==
    Result([var_obj_ EXCEPT !.branches = Put(@, key, payload)], "var_obj", "")

epistemic_instance(var_obj_, value_type, epistemic_state, value, date_range) ==
    LET value_obj == ValueObj(value_type, value, date_range)
    IN  IF value = None THEN SetBranch(var_obj_, "unknown", EmptyList)
        ELSE IF epistemic_state = VStr(S_known) THEN SetBranch(var_obj_, "known", value_obj)
        ELSE IF epistemic_state = VStr(S_unknown) THEN SetBranch(var_obj_, "unknown", EmptyList)
        ELSE IF epistemic_state = VStr(S_suspected_unknown)
        THEN SetBranch(var_obj_, "suspected_unknown", EmptyList)
        ELSE IF epistemic_state = VStr(S_inferred) THEN SetBranch(var_obj_, "inferred", value_obj)
        ELSE Result(var_obj_, "None", "")

\* faulty variant: the text is parsed whatever the epistemic state
DateRangeValueOf_always_parsed(epistemic_state, value_from) == date_range_object(value_from)

\* the value of a DateRange variable: the text is not parsed when the
\* epistemic state is unknown
DateRangeValueOf(epistemic_state, value_from) ==
    IF epistemic_state = VStr(S_unknown) THEN None ELSE date_range_object(value_from)

\* the first exception among the values computed in order, "" if none
RECURSIVE FirstRaise(_)
FirstRaise(vs) ==
    IF vs = <<>> THEN ""
    ELSE IF Raised(Head(vs)) THEN Head(vs).what
    ELSE FirstRaise(Tail(vs))

\* epistemic_instance after the parsers of a branch of infer_value, unless
\* one of them raised
Dispatch(var_obj_, value_type, parsed, value, date_range, epistemic_state) ==
    IF FirstRaise(parsed) # "" THEN Result(var_obj_, "raise", FirstRaise(parsed))
    ELSE epistemic_instance(var_obj_, value_type, epistemic_state, value, date_range)

infer_value(variables_, var_obj_, variable, value_from, value_to, date_from, date_to) ==
    IF variable \notin DOMAIN variables_ THEN Result(var_obj_, "raise", "KeyError")
    ELSE IF ~Epistemic_Value_Has(variables_[variable].inherits)
    THEN Result(var_obj_, "raise", "KeyError")
    ELSE
    LET value_type == Epistemic_Value_Map(variables_[variable].inherits)
        date_range == date_from_to(date_from, date_to)
        epistemic_state == epistemic(value_from)
        integer_range == integer_from_to(value_from, value_to)
    IN  IF "StringValue" = value_type
        THEN Dispatch(var_obj_, value_type, <<date_range>>,
                      VStr(value_from), date_range, epistemic_state)
        ELSE IF "IntegerRangeValue" = value_type
        THEN Dispatch(var_obj_, value_type, <<date_range, integer_range>>,
                      integer_range, date_range, epistemic_state)
        ELSE IF "IntegerValue" = value_type
        THEN Dispatch(var_obj_, value_type, <<date_range, integer_range>>,
                      IF integer_range # None THEN VInt(integer_range.a) ELSE None,
                      date_range, epistemic_state)
        ELSE IF "DateRangeValue" = value_type
        THEN LET value == DateRangeValueOf(epistemic_state, value_from)
             IN  Dispatch(var_obj_, value_type, <<value>>, value, None, epistemic_state)
        ELSE IF "CapitalValue" = value_type
        THEN IF Raised(date_range) THEN Result(var_obj_, "raise", date_range.what)
             ELSE IF value_from # S_empty
             THEN epistemic_instance(var_obj_, value_type, epistemic_state,
                                     VCity(value_from), date_range)
             ELSE Result(var_obj_, "None", "")
        ELSE IF "PresenceValue" = value_type
        THEN Dispatch(var_obj_, value_type, <<date_range>>,
                      presence(value_from), date_range, epistemic_state)
        ELSE IF "CentralizationValue" = value_type
        THEN Dispatch(var_obj_, value_type, <<date_range>>,
                      centralization(value_from), date_range, epistemic_state)
        ELSE IF "SupraPolityRelationsValue" = value_type
        THEN Dispatch(var_obj_, value_type, <<date_range>>,
                      supra_polity_relations(value_from), date_range, epistemic_state)
        ELSE Result(var_obj_, "raise", "Unknown Value Type")

\* ------------------------------------------------------------------------
\* Entity documents
\* ------------------------------------------------------------------------

\* a dict of the document tree ('@type' and the keys set on it) and a list
\* of envelopes, in one record shape
DictNode(type, fields) == [kind |-> "dict", type |-> type, fields |-> fields, items |-> <<>>]

ListNode(items) == [kind |-> "list", type |-> <<>>, fields |-> <<>>, items |-> items]

\* faulty variant: the '@id' is the bare entity id
NewPolity_bare_id(polity) == [id |-> VStr(polity), doc |-> DictNode(<<"P","o","l","i","t","y">>, <<>>)]

\* this_polity = { '@id' : 'Polity/' + polity, '@type' : 'Polity' }
NewPolity(polity) == [id |-> VStr(S_Polity_slash \o polity), doc |-> DictNode(<<"P","o","l","i","t","y">>, <<>>)]

\* the initial this_polity = { '@id' : None }
NoPolity == [id |-> None, doc |-> DictNode(<<>>, <<>>)]

\* obj[variable_prop].append(value), or obj[variable_prop] = [value]; obj is
\* a dict of the tree.  Appending to a dict found under the key raises.
AddValue(obj, variable_prop, value) ==
    IF variable_prop \in DOMAIN obj.fields
    THEN IF obj.fields[variable_prop].kind = "list"
         THEN [obj |-> [obj EXCEPT !.fields[variable_prop].items = Append(@, value)], err |-> ""]
         ELSE [obj |-> obj, err |-> "AttributeError"]
    ELSE [obj |-> [obj EXCEPT !.fields = Put(@, variable_prop, ListNode(<<value>>))], err |-> ""]

\* value is [t |-> "None"] or [t |-> "dict", obj |-> the envelope]
extend_polity(polity, section, subsection, variable, value) ==
    IF value.t = "None" THEN [doc |-> polity, err |-> ""]
    ELSE
    LET variable_prop == prop_name(variable)
        section_class == class_name(section)
        section_prop == prop_name(section)
        subsection_class == class_name(subsection)
        subsection_prop == prop_name(subsection)
        polity1 == IF section_prop \notin DOMAIN polity.fields
                   THEN [polity EXCEPT !.fields = Put(@, section_prop, DictNode(section_class, <<>>))]
                   ELSE polity
        section_obj == polity1.fields[section_prop]
    IN  IF subsection # S_empty
        THEN LET section1 == IF subsection_prop \notin DOMAIN section_obj.fields
                             THEN [section_obj EXCEPT !.fields =
                                      Put(@, subsection_prop, DictNode(subsection_class, <<>>))]
                             ELSE section_obj
                 subsection_obj == section1.fields[subsection_prop]
                 added == AddValue(subsection_obj, variable_prop, value.obj)
             IN  IF subsection_obj.kind = "list"
                 THEN [doc |-> polity1, err |-> "TypeError"]
                 ELSE [doc |-> [polity1 EXCEPT !.fields[section_prop] =
                                   [section1 EXCEPT !.fields[subsection_prop] = added.obj]],
                       err |-> added.err]
        ELSE LET added == AddValue(section_obj, variable_prop, value.obj)
             IN  [doc |-> [polity1 EXCEPT !.fields[section_prop] = added.obj], err |-> added.err]

\* ------------------------------------------------------------------------
\* The two passes over the rows of the file: infer_schema, then load_data
\* ------------------------------------------------------------------------

VARIABLES
    pc,             \* "infer_schema", "load_data", "done" or "raised"
    rows,           \* the rows of the file read so far by infer_schema
    sections,       \* Schema.sections
    subsections,    \* Schema.subsections
    variables,      \* Schema.variables
    section_class,  \* infer_schema: what register returned for the last row
    i,              \* load_data: the number of rows read
    polities,       \* load_data: the list of entity documents
    this_polity,    \* load_data: the index in polities of this_polity, 0 for
                    \* the initial { '@id' : None }
    var_obj,        \* load_data: the envelope of the last row
    value,          \* load_data: what infer_value returned for the last row
    err,            \* the exception that ended the run, "" if none
    fn,             \* the value parser that was called on its own, "" if none
    args,           \* its two arguments (value_from, value_to)
    ret,            \* what it returned or raised
    objects,        \* import_data: the list of documents it is given
    m,              \* import_data: the number of chunks handed over
    inserted        \* import_data: the slices passed to client.insert_document

vars == <<pc, rows, sections, subsections, variables, section_class, i,
          polities, this_polity, var_obj, value, err, fn, args, ret,
          objects, m, inserted>>

call_vars == <<fn, args, ret>>

import_vars == <<objects, m, inserted>>

schema_vars == <<sections, subsections, variables, section_class>>

data_vars == <<i, polities, this_polity, var_obj, value>>

\* a row of the file; the columns nga, fact_type, date_note and error_note
\* are read by no code
Row(polity, section, subsection, variable, value_from, value_to, date_from, date_to, value_note) ==
    [ polity |-> polity, section |-> section, subsection |-> subsection,
      variable |-> variable, value_from |-> value_from, value_to |-> value_to,
      date_from |-> date_from, date_to |-> date_to, value_note |-> value_note ]

Init ==
    /\ pc = "infer_schema"
    /\ rows = <<>>
    /\ sections = <<>>
    /\ subsections = <<>>
    /\ variables = <<>>
    /\ section_class = None
    /\ i = 0
    /\ polities = <<>>
    /\ this_polity = 0
    /\ var_obj = NoVarObj
    /\ value = "None"
    /\ err = ""
    /\ fn = ""
    /\ args = <<S_empty, S_empty>>
    /\ ret = None
    /\ objects = <<>>
    /\ m = 0
    /\ inserted = <<>>

\* one iteration of the loop of infer_schema, on the row read from the file
InferSchemaRow(row) ==
    /\ pc = "infer_schema"
    /\ rows' = Append(rows, row)
    /\ UNCHANGED <<data_vars, call_vars, import_vars>>
    /\ LET section == Title(row.section)
           subsection == Title(row.subsection)
           reg == register(sections, subsections, section, subsection)
           rv == register_variable(reg.sections, reg.subsections, variables, row, reg.ret.s)
       IN  IF row.polity = S_Code_book
           THEN UNCHANGED <<pc, schema_vars, err>>
           ELSE IF Raised(reg.ret)
           THEN /\ pc' = "raised"
                /\ err' = reg.ret.what
                /\ sections' = reg.sections
                /\ subsections' = reg.subsections
                /\ UNCHANGED <<variables, section_class>>
           ELSE /\ section_class' = reg.ret
                /\ sections' = rv.sections
                /\ subsections' = rv.subsections
                /\ variables' = rv.variables
                /\ pc' = IF rv.raised THEN "raised" ELSE pc
                /\ err' = IF rv.raised THEN "Unknown section title" ELSE err

\* the end of the file: infer_schema returns the schema and load_data starts
InferSchemaEnd ==
    /\ pc = "infer_schema"
    /\ pc' = "load_data"
    /\ UNCHANGED <<rows, schema_vars, data_vars, err, call_vars, import_vars>>

\* faulty variant: only the rows of the lineage variables are passed over
Skipped_lineage_only(row) == row.variable \in Polity_List

\* faulty variant: only the rows of the sentinel entity are passed over
Skipped_sentinel_only(row) == row.polity = S_Code_book

\* the rows load_data passes over: the sentinel entity and the lineage
\* variables
Skipped(row) == row.polity = S_Code_book \/ row.variable \in Polity_List

\* this_polity['@id']
ThisPolityId == IF this_polity = 0 THEN NoPolity.id ELSE polities[this_polity].id

\* one iteration of the loop of load_data, on the next row of the same file
LoadDataRow ==
    /\ pc = "load_data"
    /\ i < Len(rows)
    /\ i' = i + 1
    /\ UNCHANGED <<rows, schema_vars, call_vars, import_vars>>
    /\ LET row == rows[i + 1]
           section == Title(row.section)
           subsection == Title(row.subsection)
           variable_class == class_name(row.variable)
           opened == VStr(S_Polity_slash \o row.polity) # ThisPolityId
           polities1 == IF opened THEN Append(polities, NewPolity(row.polity)) ELSE polities
           this1 == IF opened THEN Len(polities1) ELSE this_polity
           res == infer_value(variables, NewVarObj(variable_class), row.variable,
                              row.value_from, row.value_to, row.date_from, row.date_to)
           ext == extend_polity(polities1[this1].doc, section, subsection, row.variable,
                                [t |-> "dict", obj |-> res.var_obj])
       IN  IF Skipped(row)
           THEN UNCHANGED <<pc, polities, this_polity, var_obj, value, err>>
           ELSE /\ this_polity' = this1
                /\ var_obj' = res.var_obj
                /\ IF res.ret = "raise"
                   THEN /\ polities' = polities1
                        /\ pc' = "raised"
                        /\ err' = res.err
                        /\ UNCHANGED value
                   ELSE /\ value' = res.ret
                        /\ polities' = [polities1 EXCEPT ![this1].doc = ext.doc]
                        /\ pc' = IF ext.err # "" THEN "raised" ELSE pc
                        /\ err' = ext.err

\* the end of the file: load_data returns polities
LoadDataEnd ==
    /\ pc = "load_data"
    /\ i = Len(rows)
    /\ pc' = "done"
    /\ UNCHANGED <<rows, schema_vars, data_vars, err, call_vars, import_vars>>

\* ------------------------------------------------------------------------
\* The value parsers called on their own, on a pair of texts
\* ------------------------------------------------------------------------

\* the state of a call of a value parser on the texts value_from, value_to
InitCall(value_from, value_to) ==
    /\ pc = "call"
    /\ rows = <<>>
    /\ sections = <<>>
    /\ subsections = <<>>
    /\ variables = <<>>
    /\ section_class = None
    /\ i = 0
    /\ polities = <<>>
    /\ this_polity = 0
    /\ var_obj = NoVarObj
    /\ value = "None"
    /\ err = ""
    /\ fn = ""
    /\ args = <<value_from, value_to>>
    /\ ret = None
    /\ objects = <<>>
    /\ m = 0
    /\ inserted = <<>>

\* the call returns (or raises) what the parser computes
Return(name, result) ==
    /\ pc = "call"
    /\ pc' = "returned"
    /\ fn' = name
    /\ ret' = result
    /\ UNCHANGED <<args, rows, schema_vars, data_vars, err, import_vars>>

CallDateFromTo == Return("date_from_to", date_from_to(args[1], args[2]))

CallIntegerFromTo == Return("integer_from_to", integer_from_to(args[1], args[2]))

CallEpistemic == Return("epistemic", epistemic(args[1]))

CallDateRangeObject == Return("date_range_object", date_range_object(args[1]))

\* ------------------------------------------------------------------------
\* import_data: the documents are handed to the store in chunks
\* ------------------------------------------------------------------------

chunk_size == 10

size == Len(objects)

chunks == (Len(objects) + 1) \div chunk_size

Min(a, b) == IF a <= b THEN a ELSE b

\* objects[from_ : to_] of Python, on a sequence that starts at 1
Slice(seq, from_, to_) == SubSeq(seq, from_ + 1, to_)

\* the state at the call import_data(client, objects)
InitImport(objects_) ==
    /\ pc = "import_data"
    /\ rows = <<>>
    /\ sections = <<>>
    /\ subsections = <<>>
    /\ variables = <<>>
    /\ section_class = None
    /\ i = 0
    /\ polities = <<>>
    /\ this_polity = 0
    /\ var_obj = NoVarObj
    /\ value = "None"
    /\ err = ""
    /\ fn = ""
    /\ args = <<S_empty, S_empty>>
    /\ ret = None
    /\ objects = objects_
    /\ m = 0
    /\ inserted = <<>>

\* one iteration of the loop of import_data
ImportDataChunk ==
    /\ pc = "import_data"
    /\ m < chunks
    /\ inserted' = Append(inserted,
                          Slice(objects, m * chunk_size, Min((m + 1) * chunk_size, size)))
    /\ m' = m + 1
    /\ UNCHANGED <<pc, objects, rows, schema_vars, data_vars, err, call_vars>>

\* the end of range(0, chunks): import_data returns
ImportDataEnd ==
    /\ pc = "import_data"
    /\ m = chunks
    /\ pc' = "imported"
    /\ UNCHANGED <<import_vars, rows, schema_vars, data_vars, err, call_vars>>

\* ------------------------------------------------------------------------
\* The rows a file may hold, and the specifications
\* ------------------------------------------------------------------------

\* the longest file of Spec and SpecSchema, in rows
MaxRows == 3

\* the longest file of SpecValues and SpecUnknown, in rows
MaxSamples == 2

\* the longest file of SpecClassify, in rows
MaxClassified == 1

V_42 == <<"4","2">>

V_7 == <<"7">>

V_9 == <<"9">>

V_7_spaced == <<" ","7"," ">>

V_absent_none == <<"a","b","s","e","n","t"," ","n","o","n","e">>

V_5BCE_7CE == <<"5","B","C","E","-","7","C","E">>

V_known_some_text == <<"k","n","o","w","n",","," ","s","o","m","e"," ","t","e","x","t">>

V_some_text == <<"s","o","m","e"," ","t","e","x","t">>

V_inferred_absent == <<"i","n","f","e","r","r","e","d"," ","a","b","s","e","n","t">>

V_5BCE == <<"5","B","C","E">>

V_5CE == <<"5","C","E">>

V_9BCE == <<"9","B","C","E">>

N_a == <<"a">>

N_b == <<"b">>

N_c == <<"c">>

N_p == <<"p">>

N_q == <<"q">>

N_x == <<"x">>

N_y == <<"y">>

N_preceding == <<"p","r","e","c","e","d","i","n","g"," ","(","q","u","a","s","i",")","p","o","l","i","t","y">>

\* Spec: files that vary in the entity, in the sentinel and lineage rows
\* and in an empty or integer value
Rows ==
    { Row(polity, N_a, S_empty, variable, value_from, S_empty, S_empty, S_empty, S_empty) :
        polity \in {S_Code_book, N_p, N_q},
        variable \in {N_x, N_preceding},
        value_from \in {S_empty, V_7} }

\* SpecSchema: files of one entity that vary in the section, the subsection
\* and the variable (x holds a text, y an integer)
SchemaRows ==
    { Row(N_p, section, subsection, variable,
          IF variable = N_x THEN V_known_some_text ELSE V_42,
          S_empty, S_empty, S_empty, S_empty) :
        section \in {N_a, N_b},
        subsection \in {S_empty, N_c},
        variable \in {N_x, N_y} }

\* SpecValues: files of one entity and one section that vary in the
\* variable name and the value
SampleNames == {S_Capital, S_Supra_polity_relations, N_x}

Samples == {S_empty, S_unknown, S_suspected_unknown, S_disputed, V_inferred_absent,
            V_known_some_text, V_42, S_present, S_loose, V_5BCE}

ValueRows ==
    { Row(N_p, N_a, S_empty, variable, value_from, S_empty, S_empty, S_empty, S_empty) :
        variable \in SampleNames, value_from \in Samples }

\* SpecUnknown: rows that give x each kind a sample can give, and rows of
\* value "unknown" that vary in value_to, date_from and date_to (V_7 is no
\* date that date_gyear parses)
KindSamples == {V_42, S_present, S_loose, V_5BCE, V_known_some_text}

Decorations == { <<S_empty, S_empty, S_empty>>, <<V_9, S_empty, S_empty>>,
                 <<S_empty, V_5CE, S_empty>>, <<S_empty, S_empty, V_9BCE>>,
                 <<V_9, V_5CE, V_9BCE>>, <<S_empty, V_7, S_empty>> }

UnknownRows ==
    { Row(N_p, N_a, S_empty, N_x, value_from, S_empty, S_empty, S_empty, S_empty) :
        value_from \in KindSamples }
    \cup
    { Row(N_p, N_a, S_empty, variable, S_unknown, d[1], d[2], d[3], S_empty) :
        variable \in SampleNames, d \in Decorations }

\* SpecClassify: first rows that vary in the name, the sample and the
\* columns infer_type is handed besides
ClassifyNames == SampleNames \cup {S_Degree_of_centralization, N_y}

ClassifySamples == {S_empty, V_42, V_7_spaced, S_present, V_absent_none, S_none, S_polity,
                    V_5BCE, V_5BCE_7CE, V_known_some_text, S_unknown}

\* the section, value_to and value_note of a row of SpecClassify
ClassifyExtras == { <<N_a, S_empty, S_empty>>, <<N_b, V_42, S_present>> }

ClassifyRows ==
    { Row(N_p, x[1], S_empty, variable, value_from, x[2], S_empty, S_empty, x[3]) :
        variable \in ClassifyNames, value_from \in ClassifySamples, x \in ClassifyExtras }

ReadRow(universe, bound) ==
    /\ Len(rows) < bound
    /\ \E row \in universe : InferSchemaRow(row)

Next ==
    \/ ReadRow(Rows, MaxRows)
    \/ InferSchemaEnd
    \/ LoadDataRow
    \/ LoadDataEnd

Spec == Init /\ [][Next]_vars

NextSchema ==
    \/ ReadRow(SchemaRows, MaxRows)
    \/ InferSchemaEnd
    \/ LoadDataRow
    \/ LoadDataEnd

SpecSchema == Init /\ [][NextSchema]_vars

NextValues ==
    \/ ReadRow(ValueRows, MaxSamples)
    \/ InferSchemaEnd
    \/ LoadDataRow
    \/ LoadDataEnd

SpecValues == Init /\ [][NextValues]_vars

NextUnknown ==
    \/ ReadRow(UnknownRows, MaxSamples)
    \/ InferSchemaEnd
    \/ LoadDataRow
    \/ LoadDataEnd

SpecUnknown == Init /\ [][NextUnknown]_vars

NextClassify ==
    \/ ReadRow(ClassifyRows, MaxClassified)
    \/ InferSchemaEnd
    \/ LoadDataRow
    \/ LoadDataEnd

SpecClassify == Init /\ [][NextClassify]_vars

\* the largest year written in a text of SpecParsers
MaxYear == 2

\* the decimal text of a natural number, as str() writes it
RECURSIVE Digits(_)
Digits(n) ==
    IF n < 10 THEN <<DigitChars[n + 1]>>
    ELSE Digits(n \div 10) \o <<DigitChars[(n % 10) + 1]>>

Years == 0..MaxYear

\* a year alone, with and without an era
YearTexts ==
    {S_empty}
    \cup { Digits(y) \o era : y \in Years,
                              era \in {S_empty, S_BCE, S_CE, <<" ">> \o S_BCE, Lower(S_BCE)} }

\* two years with a dash, in the five ways the eras can be written
RangeTexts ==
    { Digits(a) \o e[1] \o <<"-">> \o Digits(b) \o e[2] :
        a \in Years, b \in Years,
        e \in { <<S_empty, S_empty>>, <<S_empty, S_BCE>>, <<S_BCE, S_BCE>>,
                <<S_CE, S_CE>>, <<S_BCE, S_CE>> } }

\* digits followed by other text, and a text without digits
OtherTexts == { Digits(y) \o <<"a","b","c">> : y \in Years } \cup {N_x}

\* texts with and without an epistemic marker, in several spellings
MarkerTexts ==
    LET lower == {S_suspected_unknown, S_unknown, S_uncoded, S_known, S_inferred,
                  S_disputed, V_known_some_text, V_some_text, V_inferred_absent}
    IN  lower \cup { Upper(s) : s \in lower } \cup { Title(s) : s \in lower }

FromTexts == YearTexts \cup RangeTexts \cup OtherTexts \cup MarkerTexts

ToTexts == YearTexts \cup OtherTexts

InitParsers == \E value_from \in FromTexts, value_to \in ToTexts : InitCall(value_from, value_to)

NextParsers ==
    \/ CallDateFromTo
    \/ CallIntegerFromTo
    \/ CallEpistemic
    \/ CallDateRangeObject

SpecParsers == InitParsers /\ [][NextParsers]_vars

\* the longest list of documents of SpecImport
MaxObjects == 11

\* the documents of MaxObjects entities, as load_data opens them
EntityPool == [k \in 1..MaxObjects |-> NewPolity(<<LowerLetters[k]>>)]

RECURSIVE Sublist(_, _)
Sublist(seq, keep) ==
    IF seq = <<>> THEN <<>>
    ELSE Sublist(SubSeq(seq, 1, Len(seq) - 1), keep)
         \o (IF Len(seq) \in keep THEN <<seq[Len(seq)]>> ELSE <<>>)

\* any of the entities, in the order of the pool
ObjectLists == { Sublist(EntityPool, keep) : keep \in SUBSET (1..MaxObjects) }

InitImportData == \E objects_ \in ObjectLists : InitImport(objects_)

NextImport ==
    \/ ImportDataChunk
    \/ ImportDataEnd

SpecImport == InitImportData /\ [][NextImport]_vars

\* ------------------------------------------------------------------------
\* Properties
\* ------------------------------------------------------------------------

\* a row of the sentinel entity 'Code book' or of a reserved lineage variable
SentinelOrLineage(row) ==
    \/ row.polity = S_Code_book
    \/ row.variable \in { <<"p","r","e","c","e","d","i","n","g"," ","(","q","u","a","s","i",")","p","o","l","i","t","y">>,
                           <<"s","u","c","c","e","e","d","i","n","g"," ","(","q","u","a","s","i",")","p","o","l","i","t","y">> }

\* the lists of envelopes held directly by a dict of a document
ListsOf(obj) ==
    { obj.fields[k] : k \in { k \in DOMAIN obj.fields : obj.fields[k].kind = "list" } }

\* the dicts held directly by a dict of a document
DictsOf(obj) ==
    { obj.fields[k] : k \in { k \in DOMAIN obj.fields : obj.fields[k].kind = "dict" } }

\* every list of envelopes of an entity document: those of its sections and
\* those of their subsections
ListsOfDocument(doc) ==
    UNION { ListsOf(section_obj) \cup UNION { ListsOf(subsection_obj) :
                                               subsection_obj \in DictsOf(section_obj) } :
            section_obj \in DictsOf(doc) }

\* every envelope stored in any entity document
StoredEnvelopes ==
    UNION { UNION { Range(l.items) : l \in ListsOfDocument(polities[k].doc) } :
            k \in DOMAIN polities }

\* an envelope with exactly one epistemic branch, which has no value when
\* it is unknown or suspected_unknown and a value otherwise
WellFormedEnvelope(e) ==
    /\ Cardinality(DOMAIN e.branches) = 1
    /\ \A k \in DOMAIN e.branches :
          IF k \in {"unknown", "suspected_unknown"}
          THEN e.branches[k] = EmptyList
          ELSE /\ k \in {"known", "inferred", "disputed"}
               /\ e.branches[k].kind = "dict"
               /\ e.branches[k].value # None

\* C1: after load_data, every envelope stored in any entity document carries
\* exactly one epistemic branch, without a value when the branch is unknown
\* or suspected_unknown and with a value otherwise; no envelope that holds
\* only its '@type' is stored.
C1_StoredEnvelopesWellFormed ==
    pc = "done" => \A e \in StoredEnvelopes : WellFormedEnvelope(e)

\* the row that the last step of load_data read
LastRow == rows[i]

\* the entity document of this_polity, an empty dict before the first
Current(polities_, this_polity_) ==
    IF this_polity_ = 0 THEN NoPolity.doc ELSE polities_[this_polity_].doc

\* the number of envelopes under section[.subsection].variable in a document
SequenceLength(doc, row) ==
    LET section_prop == prop_name(Title(row.section))
        subsection_prop == prop_name(Title(row.subsection))
        variable_prop == prop_name(row.variable)
        Count(obj) == IF variable_prop \in DOMAIN obj.fields /\ obj.fields[variable_prop].kind = "list"
                      THEN Len(obj.fields[variable_prop].items) ELSE 0
    IN  IF section_prop \notin DOMAIN doc.fields THEN 0
        ELSE IF row.subsection = S_empty THEN Count(doc.fields[section_prop])
        ELSE IF subsection_prop \notin DOMAIN doc.fields[section_prop].fields THEN 0
        ELSE Count(doc.fields[section_prop].fields[subsection_prop])

\* the section and subsection containers of a document, by their paths
Containers(doc) ==
    { <<s>> : s \in { k \in DOMAIN doc.fields : doc.fields[k].kind = "dict" } }
    \cup UNION { { <<s, u>> : u \in { k \in DOMAIN doc.fields[s].fields :
                                        doc.fields[s].fields[k].kind = "dict" } } :
                 s \in DOMAIN doc.fields }

\* the containers and the sequence of a row in the document of an entity,
\* nothing when the entity has no document
EntityDocument(polities_, polity) ==
    LET ks == { k \in DOMAIN polities_ : polities_[k].id = VStr(S_Polity_slash \o polity) }
    IN  IF ks = {} THEN NoPolity.doc ELSE polities_[CHOOSE k \in ks : \A j \in ks : j <= k].doc

\* a row the specification says is dropped: its epistemic state is none,
\* or its variable is of kind Capital and its value_from is empty
DroppedRow(row) ==
    \/ epistemic(row.value_from) = None
    \/ /\ row.variable \in DOMAIN variables
       /\ variables[row.variable].inherits = "CapitalEpistemic"
       /\ row.value_from = S_empty

\* a step of load_data that read the row at position i + 1 and did not raise
LoadStep == pc = "load_data" /\ i' = i + 1 /\ pc' = "load_data"

\* C2: in load_data a row whose epistemic state is none, and a Capital row
\* whose value_from is empty, appends nothing: the sequence of the row's
\* section[.subsection].variable keeps its length and no section or
\* subsection container is created.
C2_DroppedRowAppendsNothing ==
    [][ (LoadStep /\ ~SentinelOrLineage(rows[i + 1]) /\ DroppedRow(rows[i + 1])) =>
          LET row == rows[i + 1]
              before == EntityDocument(polities, row.polity)
              after == EntityDocument(polities', row.polity)
          IN  /\ SequenceLength(after, row) = SequenceLength(before, row)
              /\ Containers(after) = Containers(before) ]_vars

\* the positions of the rows infer_schema registers: all but the rows of
\* the sentinel entity
Registered == { k \in DOMAIN rows : rows[k].polity # S_Code_book }

\* the first registered row that mentions a variable name
FirstMention(variable) ==
    CHOOSE k \in Registered :
        /\ rows[k].variable = variable
        /\ \A j \in Registered : rows[j].variable = variable => k <= j

\* the kind a row classifies to by itself, no name being classified yet
KindOfRow(row) ==
    infer_type(<<>>, row.variable, row.value_from, row.value_to, row.value_note,
               row.section).inherits

\* the payloads of an envelope that are value objects
ValueObjects(e) ==
    { e.branches[k] : k \in { k \in DOMAIN e.branches : e.branches[k].kind = "dict" } }

\* C3: first classification wins.  The kind stored for a variable name is
\* the kind classified from the first row that mentions the name and is not
\* of the entity 'Code book', whatever later rows of the name hold, and
\* load_data dispatches every row of the variable on that kind.
C3_FirstClassificationWins ==
    /\ pc # "raised" =>
          /\ DOMAIN variables = { rows[k].variable : k \in Registered }
          /\ \A v \in DOMAIN variables :
                variables[v].inherits = KindOfRow(rows[FirstMention(v)])
    /\ (pc \in {"load_data", "done"} /\ i >= 1 /\ ~SentinelOrLineage(LastRow)) =>
          \A o \in ValueObjects(var_obj) :
              Value_Epistemic_Map[o.type] = KindOfRow(rows[FirstMention(LastRow.variable)])

\* C3 witness: load_data has returned over a file whose second row of a
\* variable would classify to another kind than its first row
C3_Witness ==
    /\ pc = "done"
    /\ \E j, k \in Registered :
          /\ j < k /\ rows[j].variable = rows[k].variable
          /\ j = FirstMention(rows[j].variable)
          /\ KindOfRow(rows[j]) # KindOfRow(rows[k])
          /\ ~SentinelOrLineage(rows[k])
          /\ i = k
          /\ ValueObjects(var_obj) # {}

\* the rows load_data dispatches, in order
Dispatched(rs) == SelectSeq(rs, LAMBDA row : ~SentinelOrLineage(row))

\* the entity ids of a sequence of rows in order of first appearance
RECURSIVE EntityOrder(_)
EntityOrder(rs) ==
    IF rs = <<>> THEN <<>>
    ELSE LET before == EntityOrder(SubSeq(rs, 1, Len(rs) - 1))
             polity == rs[Len(rs)].polity
         IN  IF polity \in Range(before) THEN before ELSE Append(before, polity)

\* the rows of each entity are contiguous
Contiguous(rs) ==
    \A a, b, c \in DOMAIN rs :
        (a < b /\ b < c /\ rs[a].polity = rs[c].polity) => rs[b].polity = rs[a].polity

\* C4: when the dispatched rows of each entity are contiguous, load_data
\* holds, after every row and when it returns, exactly one document per
\* entity id that has a dispatched row so far, with '@id' 'Polity/' + id, in
\* order of first appearance: a document is created only at the first row
\* of its id.
C4_OneDocumentPerEntity ==
    (pc \in {"load_data", "done"} /\ Contiguous(Dispatched(SubSeq(rows, 1, i)))) =>
        LET order == EntityOrder(Dispatched(SubSeq(rows, 1, i)))
        IN  /\ Len(polities) = Len(order)
            /\ \A k \in DOMAIN order : polities[k].id = VStr(S_Polity_slash \o order[k])

\* C4 witness: load_data has returned two documents for three dispatched
\* rows of two entities
C4_Witness ==
    /\ pc = "done"
    /\ Contiguous(Dispatched(rows))
    /\ Len(Dispatched(rows)) = 3
    /\ Len(polities) = 2

\* the value kinds infer_value has a branch for
DispatchKinds == {"StringValue", "IntegerRangeValue", "IntegerValue", "DateRangeValue",
                  "CapitalValue", "PresenceValue", "CentralizationValue",
                  "SupraPolityRelationsValue"}

\* C9: when load_data runs over the rows infer_schema ran over, every row
\* it dispatches has a variable with a registered kind that infer_value has
\* a branch for: neither the lookup of the variable nor the dispatch fails,
\* also with rows of the entity 'Code book' and rows of lineage variables in
\* the file.
C9_DispatchNeverFails ==
    /\ err \notin {"KeyError", "Unknown Value Type"}
    /\ pc \in {"load_data", "done"} =>
          \A k \in DOMAIN rows :
              ~SentinelOrLineage(rows[k]) =>
                  /\ rows[k].variable \in DOMAIN variables
                  /\ Epistemic_Value_Has(variables[rows[k].variable].inherits)
                  /\ Epistemic_Value_Map(variables[rows[k].variable].inherits) \in DispatchKinds

\* C9 witness: load_data has returned over a file that holds a row of the
\* entity 'Code book', a row of a lineage variable and a dispatched row
C9_Witness ==
    /\ pc = "done"
    /\ \E j, k, l \in DOMAIN rows :
          /\ rows[j].polity = S_Code_book /\ rows[j].variable \notin Polity_List
          /\ rows[k].polity # S_Code_book /\ rows[k].variable \in Polity_List
          /\ rows[l].variable = rows[j].variable
          /\ ~SentinelOrLineage(rows[l])
    /\ Len(polities) >= 1

\* the names register is called with: those of the files and one more
RegisterNames == {<<"A">>, <<"B">>, <<"C">>, <<"D">>}

\* C5: Schema.register is idempotent.  In every registry state and for
\* every pair (section, subsection), a second call with the same pair leaves
\* the sections and subsections as the first call left them and returns the
\* same owning node: the subsection if it is not empty, else the section.
C5_RegisterIdempotent ==
    \A section \in RegisterNames, subsection \in RegisterNames \cup {S_empty} :
        LET first == register(sections, subsections, section, subsection)
            second == register(first.sections, first.subsections, section, subsection)
        IN  /\ second.sections = first.sections
            /\ second.subsections = first.subsections
            /\ second.ret = first.ret
            /\ first.ret = VStr(IF subsection # S_empty THEN subsection ELSE section)

\* C5 witness: infer_schema has called register twice with the same
\* section and subsection, and the registry holds one node of each
C5_Witness ==
    /\ pc = "infer_schema"
    /\ Len(rows) = 2
    /\ rows[1].section = rows[2].section
    /\ rows[1].subsection = rows[2].subsection
    /\ rows[1].subsection # S_empty
    /\ section_class = VStr(Title(rows[2].subsection))
    /\ DOMAIN sections = {Title(rows[2].section)}
    /\ DOMAIN subsections = {Title(rows[2].subsection)}

\* the schema nodes that hold a variable as a set-valued field
NodesOfVariable(variable) ==
    LET field == SetField(class_name(variable))
        Holds(node) == /\ prop_name(variable) \in DOMAIN node.fields
                       /\ node.fields[prop_name(variable)] = field
    IN  { <<"section", s>> : s \in { s \in DOMAIN sections : Holds(sections[s]) } }
        \cup { <<"subsection", u>> : u \in { u \in DOMAIN subsections : Holds(subsections[u]) } }

\* C6: after infer_schema every registered variable is a set-valued field
\* of exactly one schema node, one Section or one Subsection, also when the
\* name occurs in rows of different sections or subsections.
C6_VariableOnExactlyOneNode ==
    pc \in {"load_data", "done"} =>
        \A v \in DOMAIN variables : Cardinality(NodesOfVariable(v)) = 1

\* the list of envelopes under the keys of path in a document, the empty
\* list when a key is missing
RECURSIVE ItemsAt(_, _)
ItemsAt(obj, path) ==
    IF path = <<>> THEN obj.items
    ELSE IF obj.kind = "dict" /\ Head(path) \in DOMAIN obj.fields
    THEN ItemsAt(obj.fields[Head(path)], Tail(path))
    ELSE <<>>

\* a sequence of one envelope, which is known with the value v
OneKnown(items, v) ==
    /\ Len(items) = 1
    /\ DOMAIN items[1].branches = {"known"}
    /\ items[1].branches["known"].value = v

\* a file of two rows of one entity: x in a section with the text
\* "known, some text", then y in a subsection of that section with "42"
TwoRowInput ==
    /\ Len(rows) = 2
    /\ rows[1].variable = N_x /\ rows[1].value_from = V_known_some_text
    /\ rows[1].subsection = S_empty
    /\ rows[2].variable = N_y /\ rows[2].value_from = V_42
    /\ rows[2].subsection # S_empty
    /\ rows[2].section = rows[1].section
    /\ rows[2].polity = rows[1].polity
    /\ KindOfRow(rows[1]) = "StringEpistemic"
    /\ KindOfRow(rows[2]) = "IntegerEpistemic"

\* the document of a two-row file holds, under section.x and under
\* section.subsection.y, one known envelope each, with the values vx and vy
TwoRowDocument(vx, vy) ==
    (pc = "done" /\ TwoRowInput) =>
        LET section_key == Lower(rows[1].section)
            subsection_key == Lower(rows[2].subsection)
        IN  /\ Len(polities) = 1
            /\ OneKnown(ItemsAt(polities[1].doc, <<section_key, <<"x">> >>), vx)
            /\ OneKnown(ItemsAt(polities[1].doc, <<section_key, subsection_key, <<"y">> >>), vy)

\* C8 as stated: sectionA.variableX is one known envelope with the value
\* "some text" and sectionA.subsectionB.variableY one known envelope with
\* the value 42.
C8_TwoRowDocumentAsStated == TwoRowDocument(VStr(V_some_text), VInt(42))

\* C8 as amended: the String value is the raw text "known, some text", the
\* epistemic marker included.
C8_TwoRowDocument == TwoRowDocument(VStr(V_known_some_text), VInt(42))

\* C8 witness: load_data has returned the document of a two-row file
C8_Witness == pc = "done" /\ TwoRowInput /\ Len(polities) = 1

\* the value_to, date_from and date_to of a row parse: each date is empty
\* or a year with its era, value_to is empty or an integer
Parses(row) ==
    /\ ~Raised(date_gyear(row.date_from))
    /\ ~Raised(date_gyear(row.date_to))
    /\ row.value_to = S_empty \/ IntOk(row.value_to)

\* the envelope of a variable with the unknown branch alone, which holds no
\* value
UnknownEnvelope(variable) ==
    [type |-> VStr(class_name(variable)), branches |-> ("unknown" :> EmptyList)]

\* the kinds the classifier assigns
ClassifierKinds == {"IntegerEpistemic", "PresenceEpistemic", "CentralizationEpistemic",
                    "SupraPolityRelationsEpistemic", "CapitalEpistemic", "StringEpistemic",
                    "DateRangeEpistemic"}

\* C7: for a variable of any kind the classifier assigns, a row whose
\* value_from is exactly "unknown" and whose value_to, date_from and date_to
\* parse never raises and stores an envelope with the unknown branch and no
\* value.
C7_UnknownRowYieldsUnknown ==
    (i >= 1 /\ ~SentinelOrLineage(LastRow) /\ LastRow.value_from = S_unknown /\ Parses(LastRow)) =>
        LET stored == ItemsAt(Current(polities, this_polity),
                              <<prop_name(Title(LastRow.section)), prop_name(LastRow.variable)>>)
        IN  /\ pc # "raised"
            /\ variables[LastRow.variable].inherits \in ClassifierKinds
            /\ var_obj = UnknownEnvelope(LastRow.variable)
            /\ stored # <<>>
            /\ stored[Len(stored)] = UnknownEnvelope(LastRow.variable)

\* C7 witness: load_data has stored the envelope of a row "unknown" with a
\* value_to and both dates, for a variable of kind DateRange
C7_Witness ==
    /\ pc = "done"
    /\ i = 2
    /\ LastRow.value_from = S_unknown
    /\ LastRow.value_to # S_empty /\ LastRow.date_from # S_empty /\ LastRow.date_to # S_empty
    /\ Parses(LastRow)
    /\ variables[LastRow.variable].inherits = "DateRangeEpistemic"
    /\ var_obj = UnknownEnvelope(LastRow.variable)

\* the rules of the classifier in their order: the condition of each on the
\* name and the sample, and its kind
Rules(name, sample) ==
    << <<name = S_Capital, "CapitalEpistemic">>,
       <<name = S_Supra_polity_relations, "SupraPolityRelationsEpistemic">>,
       <<MatchFull(integer_pat, sample), "IntegerEpistemic">>,
       <<Contains(sample, S_present) \/ Contains(sample, S_absent), "PresenceEpistemic">>,
       <<name = S_Degree_of_centralization \/ centralization_pat(sample),
         "CentralizationEpistemic">>,
       <<MatchFull(date_range_pat_1, sample) \/ MatchFull(date_range_pat_2, sample),
         "DateRangeEpistemic">>,
       <<TRUE, "StringEpistemic">> >>

\* the kind of the first rule whose condition holds
FirstRule(name, sample) ==
    LET rs == Rules(name, sample)
        k == CHOOSE k \in DOMAIN rs : rs[k][1] /\ \A j \in 1..(k - 1) : ~rs[j][1]
    IN  rs[k][2]

\* C10: a name that is not classified yet is given the kind of the first
\* rule that matches, in the order Capital, SupraPolityRelations, Integer,
\* Presence, Centralization, DateRange, String; the kind depends on the
\* name and on the value_from of the row alone.
C10_FirstMatchingRule ==
    pc # "raised" =>
        \A v \in DOMAIN variables :
            variables[v].inherits = FirstRule(v, rows[FirstMention(v)].value_from)

\* C10 witness: a name that the centralization rule matches is classified
\* from a sample that the year pattern matches, in a row with a value_to
C10_Witness ==
    /\ Len(rows) = 1
    /\ rows[1].variable = S_Degree_of_centralization
    /\ rows[1].value_from = V_5BCE
    /\ rows[1].value_to # S_empty
    /\ variables[S_Degree_of_centralization].inherits = "CentralizationEpistemic"

\* a call of the parser name has returned
Returned(name) == pc = "returned" /\ fn = name

\* C11: for every pair of year texts that date_gyear accepts, date_from_to
\* returns None when both are empty, (y, y) when one alone is present with
\* year y, and (a, b) when both are present with years a and b, year 0
\* included
C11_DateScopeAsStated ==
    LET a == date_gyear(args[1])
        b == date_gyear(args[2])
    IN  (Returned("date_from_to") /\ ~Raised(a) /\ ~Raised(b)) =>
            ret = IF args[1] = S_empty /\ args[2] = S_empty THEN None
                  ELSE IF args[1] = S_empty THEN VTuple(b.a, b.a)
                  ELSE IF args[2] = S_empty THEN VTuple(a.a, a.a)
                  ELSE VTuple(a.a, b.a)

\* a bare integer: digits and nothing else
BareInteger(s) == s # <<>> /\ \A k \in DOMAIN s : s[k] \in DigitSet

\* C12: integer_from_to never raises: it returns (N, M) for a value_from
\* 'N-M', (n, m or n) for a bare integer value_from, (m, m) when only
\* value_to is a bare integer, and None in every other case, digits followed
\* by other text included
C12_IntegerRangeTotal ==
    Returned("integer_from_to") =>
        ret = IF MatchFull(range_pat, args[1])
              THEN VList(DigitsValue(Group1(args[1])), DigitsValue(Group2(args[1])))
              ELSE IF BareInteger(args[1])
              THEN VList(DigitsValue(args[1]),
                         IF BareInteger(args[2]) THEN DigitsValue(args[2])
                         ELSE DigitsValue(args[1]))
              ELSE IF BareInteger(args[2])
              THEN VList(DigitsValue(args[2]), DigitsValue(args[2]))
              ELSE None

\* the state the first matching prefix of a lower-case text stands for
StateByPrefix(text) ==
    LET order == << <<S_suspected_unknown, S_suspected_unknown>>, <<S_unknown, S_unknown>>,
                    <<S_uncoded, S_unknown>>, <<S_known, S_known>>,
                    <<S_inferred, S_inferred>>, <<S_disputed, S_disputed>> >>
        hits == { k \in DOMAIN order : StartsWith(text, order[k][1]) }
    IN  IF hits # {} THEN VStr(order[CHOOSE k \in hits : \A j \in hits : k <= j][2])
        ELSE IF text = S_empty THEN None
        ELSE VStr(S_known)

\* C13: epistemic decides on the lower-cased text by its first matching
\* prefix, so the result is the same for every upper/lower-case spelling
C13_EpistemicOnLowerCasedText ==
    Returned("epistemic") => ret = StateByPrefix(Lower(args[1]))

\* the signed years the eras written in a date text stand for
SignedYears(text) ==
    LET s == Upper(text)
        n == DigitsValue(Group1(s))
        k == DigitsValue(Group2(s))
    IN  IF MatchFull(bce_date, s) THEN VDateRange(-n, -n)
        ELSE IF MatchFull(ce_date, s) THEN VDateRange(n, n)
        ELSE IF MatchFull(bce_date_range_1, s) \/ MatchFull(bce_date_range_2, s)
        THEN VDateRange(-n, -k)
        ELSE IF MatchFull(ce_date_range_1, s) \/ MatchFull(ce_date_range_2, s)
        THEN VDateRange(n, k)
        ELSE IF MatchFull(bce_ce_date_range, s) THEN VDateRange(-n, k)
        ELSE Raise("Unable to parse date")

\* C14: date_range_object maps each of its five shapes to signed years,
\* every BCE year negative and every CE year positive ('N BCE-M CE' to
\* (-N, M)), and raises on any other text
C14_DateRangeSignedYears ==
    Returned("date_range_object") => ret = SignedYears(args[1])

\* the slices handed to the store, one after the other
RECURSIVE Concat(_)
Concat(batches) ==
    IF batches = <<>> THEN <<>> ELSE Head(batches) \o Concat(Tail(batches))

\* C15: import_data hands every document of the list to insert_document
\* exactly once and in list order, whatever the length of the list
C15_EveryDocumentSubmitted ==
    pc = "imported" => Concat(inserted) = objects

\* the rows infer_schema registered that name a subsection
NestedRows == { k \in Registered : rows[k].subsection # S_empty }

\* the schema node of the section declares the subsection as an optional
\* field
Declares(section, subsection) ==
    /\ section \in DOMAIN sections
    /\ prop_name(subsection) \in DOMAIN sections[section].fields
    /\ sections[section].fields[prop_name(subsection)]
           = OptionalField(class_name(subsection))

\* C16: after infer_schema, for every row that is not of 'Code book' and
\* names a subsection, the schema node of the row's section declares that
\* subsection as an optional field, also when one subsection name is used
\* under two sections
C16_NestingDeclared ==
    pc \in {"load_data", "done"} =>
        \A k \in NestedRows : Declares(Title(rows[k].section), Title(rows[k].subsection))

\* load_data reads a row that is of 'Code book' or of a lineage variable
SkipStep == pc = "load_data" /\ i' = i + 1 /\ SentinelOrLineage(rows[i + 1])

\* the entities all of whose rows are passed over
OnlySkipped == { rows[k].polity : k \in DOMAIN rows }
                   \ { rows[k].polity : k \in { j \in DOMAIN rows : ~SentinelOrLineage(rows[j]) } }

\* C17: in load_data a skipped row ('Code book', or a lineage variable)
\* leaves the assembler state as it was: the document list, the current
\* entity and its containers, the last envelope and value; and an entity
\* that has only skipped rows has no document when load_data returns
C17_SkippedRowChangesNothing ==
    /\ [][SkipStep => UNCHANGED <<polities, this_polity, var_obj, value, pc, err>>]_vars
    /\ [](pc = "done" =>
            \A e \in OnlySkipped, k \in DOMAIN polities :
                polities[k].id # VStr(S_Polity_slash \o e))

\* C17 witness: a lineage row of q, which has no other row, lay between two
\* rows of p; load_data returned one document, that of p, with both values
C17_Witness ==
    /\ pc = "done"
    /\ Len(rows) = 3
    /\ rows[1].polity = N_p /\ rows[3].polity = N_p /\ rows[2].polity = N_q
    /\ ~SentinelOrLineage(rows[1]) /\ ~SentinelOrLineage(rows[3])
    /\ rows[2].variable \in Polity_List
    /\ rows[1].variable = rows[3].variable
    /\ Len(polities) = 1
    /\ polities[1].id = VStr(S_Polity_slash \o N_p)
    /\ SequenceLength(polities[1].doc, rows[3]) = 2

====
